---- MODULE Spec2Model ----
(***************************************************************************)
(* Model of two cross-thread paths of web-audio-api-rs:                    *)
(*                                                                         *)
(*  - the microphone capture path of src/media/mic.rs: the hardware        *)
(*    callback MicrophoneRender::render pushes one AudioBuffer per call    *)
(*    into a bounded crossbeam channel with try_send, and                  *)
(*    MicrophoneStream::next pulls with try_recv;                          *)
(*                                                                         *)
(*  - the coefficient query path of src/node/iir_filter.rs: the control    *)
(*    thread's IirFilterNode::get_frequency_response hands a CoeffsReq     *)
(*    to the render thread over a zero-capacity channel, and               *)
(*    IirFilterRenderer::filter answers over a second zero-capacity        *)
(*    channel carried inside the request.                                  *)
(*                                                                         *)
(* The two paths share no state.  MicSpec runs the first, IirSpec the      *)
(* second (IirLiveSpec: the second with a renderer that is never dropped,  *)
(* under the scheduling fairness of the two threads).                      *)
(***************************************************************************)
EXTENDS Integers, Sequences, FiniteSets, TLC

VARIABLES
    \* ---- src/media/mic.rs ----
    number_of_channels, \* Microphone.number_of_channels (from the backend)
    sample_rate,        \* Microphone.sample_rate (from the backend)
    hw_frames,          \* frames per channel the backend hands to one callback
    queue,              \* the bounded channel from Sender to Receiver<AudioBuffer>
    sender_alive,       \* the MicrophoneRender (and with it the Sender) still exists
    backend_state,      \* "running" | "suspended" | "closed"
    mic_alive,          \* the Microphone handle has been neither closed nor dropped
    streams,            \* the MicrophoneStream values handed out by stream()
    log,                \* history: every render and every next call, and the
                        \* close (with the buffers then queued) or drop that ended
                        \* the Microphone, in order
    \* ---- src/node/iir_filter.rs ----
    iir_sample_rate,    \* IirFilterNode.sample_rate = IirFilterRenderer.sample_rate
    type_,              \* Arc<AtomicU32> shared by node and renderer
    coeffs,             \* IirFilterRenderer.coeffs
    ss1,                \* IirFilterRenderer.ss1: [f32; MAX_CHANNELS]
    ss2,                \* IirFilterRenderer.ss2: [f32; MAX_CHANNELS]
    renderer_alive,     \* the IirFilterRenderer (and its Receiver<CoeffsReq>) exists
    rnd_pc,             \* render thread: "idle" | "params" | "took" | "send" | "filter"
    rnd_params,         \* the Params of the running (or latest) process call; at
                        \* first the ones the renderer was built with
    rnd_req,            \* control threads whose CoeffsReq the running filter call
                        \* has taken and not answered yet
    req_waiters,        \* control threads blocked in self.sender.send, in arrival order
    ctl_pc,             \* per control thread: "idle" | "send" | "poll" | "panicked"
    ctl_req,            \* per control thread: id of its current request (0: none)
    ctl_resp,           \* per control thread: the [f32; 6] last received
    req_count,          \* number of get_frequency_response calls started
    answered,           \* history: per request id, the number of replies sent to it
    call                \* history: the running (or latest) filter call: the requests
                        \* it took, the coeffs_resp it built, the replies it sent

micVars == <<number_of_channels, sample_rate, hw_frames, queue, sender_alive,
             backend_state, mic_alive, streams, log>>
iirVars == <<iir_sample_rate, type_, coeffs, ss1, ss2, renderer_alive, rnd_pc,
             rnd_params, rnd_req,
             req_waiters, ctl_pc, ctl_req, ctl_resp, req_count, answered, call>>
vars == <<micVars, iirVars>>

(***************************************************************************)
(* Bounds of the model                                                     *)
(***************************************************************************)
QueueCapacity == 2   \* capacity C of the capture channel (set by io::build_input)
MaxProduced == 3     \* hardware callbacks explored
MaxNext == 3         \* MicrophoneStream::next calls explored (all streams together)
MaxStreams == 2      \* MicrophoneStream values explored
MaxControl == 2      \* control threads sharing one IirFilterNode
MaxRequests == 2     \* get_frequency_response calls explored

\* crate::RENDER_QUANTUM_SIZE
RENDER_QUANTUM_SIZE == 128

\* the input devices explored: channel count, sample rate, and the frames per
\* channel handed to one callback (a full quantum, or the half quantum of a
\* device that does not grant the requested buffer size)
Devices ==
    {[number_of_channels |-> 1, sample_rate |-> 44100, frames |-> RENDER_QUANTUM_SIZE],
     [number_of_channels |-> 2, sample_rate |-> 48000,
      frames |-> RENDER_QUANTUM_SIZE \div 2]}
StreamIds == 1..MaxStreams

Last(s) == s[Len(s)]

(***************************************************************************)
(* AudioBuffer                                                             *)
(***************************************************************************)
\* AudioBuffer::from_channels(channels, sample_rate)
from_channels(channels, sr) == [channels |-> channels, sample_rate |-> sr]

\* AudioBuffer::new(options): a silent buffer of the given shape
AudioBuffer_new(options) ==
    [channels |-> [c \in 1..options.number_of_channels |->
                       [k \in 1..options.length |-> 0]],
     sample_rate |-> options.sample_rate]

\* the k-th interleaved sample of the n-th hardware callback: every callback's
\* data is distinct from every other's and from silence
Sample(n, k) == n * (number_of_channels * hw_frames + 1) + k
HwData(n, frames, nch) == [k \in 1..(frames * nch) |-> Sample(n, k)]

(***************************************************************************)
(* crossbeam_channel, bounded(cap) with cap > 0                            *)
(***************************************************************************)
\* Sender::try_send: Full when the channel holds cap messages
try_send_overwrite(q, cap, msg) ==
    IF Len(q) < cap THEN [res |-> "Ok", queue |-> Append(q, msg)]
    ELSE [res |-> "Ok", queue |-> Append(Tail(q), msg)]

try_send_unbounded(q, cap, msg) == [res |-> "Ok", queue |-> Append(q, msg)]

try_send(q, cap, msg) ==
    IF Len(q) < cap THEN [res |-> "Ok", queue |-> Append(q, msg)]
    ELSE [res |-> "Full", queue |-> q]

\* Receiver::try_recv: a queued message is delivered even after the senders are
\* gone; Disconnected only once the channel is empty and has no sender
try_recv_lifo(q, connected) ==
    IF q # <<>>
    THEN [res |-> "Ok", msg |-> q[Len(q)], queue |-> SubSeq(q, 1, Len(q) - 1)]
    ELSE IF connected THEN [res |-> "Empty", queue |-> q]
    ELSE [res |-> "Disconnected", queue |-> q]

try_recv_lossy(q, connected) ==
    IF ~connected THEN [res |-> "Disconnected", queue |-> q]
    ELSE IF q # <<>> THEN [res |-> "Ok", msg |-> Head(q), queue |-> Tail(q)]
    ELSE [res |-> "Empty", queue |-> q]

try_recv_peek(q, connected) ==
    IF q # <<>> THEN [res |-> "Ok", msg |-> Head(q), queue |-> q]
    ELSE IF connected THEN [res |-> "Empty", queue |-> q]
    ELSE [res |-> "Disconnected", queue |-> q]

try_recv(q, connected) ==
    IF q # <<>> THEN [res |-> "Ok", msg |-> Head(q), queue |-> Tail(q)]
    ELSE IF connected THEN [res |-> "Empty", queue |-> q]
    ELSE [res |-> "Disconnected", queue |-> q]

(***************************************************************************)
(* MicrophoneRender                                                        *)
(***************************************************************************)
\* data.iter().skip(i).step_by(n).collect(): samples i, i+n, i+2n, ... (0-based)
Deinterleave(data, i, n) ==
    [j \in 1..((Len(data) - i + n - 1) \div n) |-> data[i + (j - 1) * n + 1]]

\* MicrophoneRender::render(data), run on queue q: the channel afterwards, the
\* buffer built, the outcome of every send attempt made, and how the call ended
render_retry(q, data) ==
    LET channels == [i \in 1..number_of_channels |->
                         Deinterleave(data, i - 1, number_of_channels)]
        buffer == from_channels(channels, sample_rate)
        first == try_send(q, QueueCapacity, buffer)
        again == try_send(Tail(q), QueueCapacity, buffer)
    IN  IF first.res = "Ok"
        THEN [queue |-> first.queue, buffer |-> buffer, sends |-> <<first.res>>,
              outcome |-> "returned"]
        ELSE [queue |-> again.queue, buffer |-> buffer,
              sends |-> <<first.res, again.res>>, outcome |-> "returned"]

render_unwrap(q, data) ==
    LET channels == [i \in 1..number_of_channels |->
                         Deinterleave(data, i - 1, number_of_channels)]
        buffer == from_channels(channels, sample_rate)
        result == try_send(q, QueueCapacity, buffer)
    IN  [queue |-> result.queue, buffer |-> buffer, sends |-> <<result.res>>,
         outcome |-> IF result.res = "Ok" THEN "returned" ELSE "panicked"]

render(q, data) ==
    LET channels == [i \in 1..number_of_channels |->
                         Deinterleave(data, i - 1, number_of_channels)]
        buffer == from_channels(channels, sample_rate)
        result == try_send(q, QueueCapacity, buffer)
    IN  [queue |-> result.queue, buffer |-> buffer, sends |-> <<result.res>>,
         outcome |-> "returned"]

\* history projections
Renders == SelectSeq(log, LAMBDA e : e.op = "render")
Nexts == SelectSeq(log, LAMBDA e : e.op = "next")
NextsOf(s) == SelectSeq(log, LAMBDA e : e.op = "next" /\ e.stream = s)
NumProduced == Len(Renders)
NumNext == Len(Nexts)

(***************************************************************************)
(* MicrophoneStream                                                        *)
(***************************************************************************)
\* Option<Result<AudioBuffer, Box<dyn Error>>>
None == [tag |-> "None"]
SomeOk(buffer) == [tag |-> "Some", res |-> "Ok", buffer |-> buffer]
SomeErr(e) == [tag |-> "Some", res |-> "Err", error |-> e]

\* MicrophoneStream::next, run on queue q: the channel afterwards, what try_recv
\* reported, and the item returned
next_none_on_empty(q, connected) ==
    LET r == try_recv(q, connected)
    IN  IF r.res = "Ok"
        THEN [queue |-> r.queue, recv |-> r.res, item |-> SomeOk(r.msg)]
        ELSE [queue |-> r.queue, recv |-> r.res, item |-> None]

next_err_on_disconnect(q, connected) ==
    LET r == try_recv(q, connected)
    IN  CASE r.res = "Ok" ->
                [queue |-> r.queue, recv |-> r.res, item |-> SomeOk(r.msg)]
          [] r.res = "Empty" ->
                [queue |-> r.queue, recv |-> r.res,
                 item |-> SomeOk(AudioBuffer_new(
                              [number_of_channels |-> number_of_channels,
                               length |-> RENDER_QUANTUM_SIZE,
                               sample_rate |-> sample_rate]))]
          [] r.res = "Disconnected" ->
                [queue |-> r.queue, recv |-> r.res, item |-> SomeErr("disconnected")]

next(q, connected) ==
    LET r == try_recv(q, connected)
    IN  CASE r.res = "Ok" ->
                [queue |-> r.queue, recv |-> r.res, item |-> SomeOk(r.msg)]
          [] r.res = "Empty" ->
                [queue |-> r.queue, recv |-> r.res,
                 item |-> SomeOk(AudioBuffer_new(
                              [number_of_channels |-> number_of_channels,
                               length |-> RENDER_QUANTUM_SIZE,
                               sample_rate |-> sample_rate]))]
          [] r.res = "Disconnected" ->
                [queue |-> r.queue, recv |-> r.res, item |-> None]

(***************************************************************************)
(* The input backend (crate::io), as far as the capture path sees it: it   *)
(* owns the hardware stream whose callback owns the MicrophoneRender.      *)
(***************************************************************************)
\* AudioBackend::suspend: the hardware stream is paused, no callback fires
backend_suspend(b) == [b EXCEPT !.state = "suspended"]
\* AudioBackend::resume
backend_resume(b) == [b EXCEPT !.state = "running"]
\* AudioBackend::close: the hardware stream is destroyed, and its callback with it
backend_close(b) == [state |-> "closed", render_alive |-> FALSE]
\* the last handle of the backend is dropped
backend_drop(b) == [state |-> "closed", render_alive |-> FALSE]
Backend == [state |-> backend_state, render_alive |-> sender_alive]

(***************************************************************************)
(* Actions of the capture path                                             *)
(***************************************************************************)
MicInit ==
    /\ \E d \in Devices :
          /\ number_of_channels = d.number_of_channels
          /\ sample_rate = d.sample_rate
          /\ hw_frames = d.frames
    /\ queue = <<>>
    /\ sender_alive = TRUE
    /\ backend_state = "running"
    /\ mic_alive = TRUE
    /\ streams = {}
    /\ log = <<>>

\* the hardware callback: MicrophoneRender::render(data)
MicRender ==
    /\ backend_state = "running"
    /\ sender_alive
    /\ NumProduced < MaxProduced
    /\ LET r == render(queue, HwData(NumProduced + 1, hw_frames, number_of_channels))
       IN  /\ queue' = r.queue
           /\ log' = Append(log, [op |-> "render", buffer |-> r.buffer,
                                  sends |-> r.sends, outcome |-> r.outcome])
           \* a callback that panics takes the MicrophoneRender down with it
           /\ sender_alive' = (r.outcome = "returned")
    /\ UNCHANGED <<number_of_channels, sample_rate, hw_frames, backend_state,
                   mic_alive, streams>>
    /\ UNCHANGED iirVars

\* Microphone::stream
MicStream ==
    /\ mic_alive
    /\ Cardinality(streams) < MaxStreams
    /\ streams' = streams \cup {Cardinality(streams) + 1}
    /\ UNCHANGED <<number_of_channels, sample_rate, hw_frames, queue,
                   sender_alive, backend_state, mic_alive, log>>
    /\ UNCHANGED iirVars

\* <MicrophoneStream as Iterator>::next
MicStreamNext(s) ==
    /\ s \in streams
    /\ NumNext < MaxNext
    /\ LET r == next(queue, sender_alive)
       IN  /\ queue' = r.queue
           /\ log' = Append(log, [op |-> "next", stream |-> s, recv |-> r.recv,
                                  item |-> r.item])
    /\ UNCHANGED <<number_of_channels, sample_rate, hw_frames, sender_alive,
                   backend_state, mic_alive, streams>>
    /\ UNCHANGED iirVars

\* Microphone::suspend
MicSuspend ==
    /\ mic_alive
    /\ backend_state = "running"
    /\ backend_state' = backend_suspend(Backend).state
    /\ UNCHANGED <<number_of_channels, sample_rate, hw_frames, queue,
                   sender_alive, mic_alive, streams, log>>
    /\ UNCHANGED iirVars

\* Microphone::resume
MicResume ==
    /\ mic_alive
    /\ backend_state = "suspended"
    /\ backend_state' = backend_resume(Backend).state
    /\ UNCHANGED <<number_of_channels, sample_rate, hw_frames, queue,
                   sender_alive, mic_alive, streams, log>>
    /\ UNCHANGED iirVars

\* Microphone::close(self): consumes the handle and closes the backend; the
\* MicrophoneRender is dropped with the callback (Drop for MicrophoneRender)
MicClose_by_ref ==
    /\ mic_alive
    /\ backend_state # "closed"
    /\ backend_state' = backend_suspend(Backend).state
    /\ log' = Append(log, [op |-> "close", queued |-> queue])
    /\ UNCHANGED <<number_of_channels, sample_rate, hw_frames, queue, sender_alive,
                   mic_alive, streams>>
    /\ UNCHANGED iirVars

MicClose ==
    /\ mic_alive
    /\ mic_alive' = FALSE
    /\ backend_state' = backend_close(Backend).state
    /\ sender_alive' = backend_close(Backend).render_alive
    /\ log' = Append(log, [op |-> "close", queued |-> queue])
    /\ UNCHANGED <<number_of_channels, sample_rate, hw_frames, queue, streams>>
    /\ UNCHANGED iirVars

\* the Microphone goes out of scope: every stream holds a clone of the backend
\* (_stream), so the backend is dropped only when no stream was taken
MicDrop_ends_streams ==
    /\ mic_alive
    /\ mic_alive' = FALSE
    /\ backend_state' = backend_drop(Backend).state
    /\ sender_alive' = backend_drop(Backend).render_alive
    /\ log' = Append(log, [op |-> "drop"])
    /\ UNCHANGED <<number_of_channels, sample_rate, hw_frames, queue, streams>>
    /\ UNCHANGED iirVars

MicDrop ==
    /\ mic_alive
    /\ mic_alive' = FALSE
    /\ IF streams = {}
       THEN /\ backend_state' = backend_drop(Backend).state
            /\ sender_alive' = backend_drop(Backend).render_alive
       ELSE UNCHANGED <<backend_state, sender_alive>>
    /\ log' = Append(log, [op |-> "drop"])
    /\ UNCHANGED <<number_of_channels, sample_rate, hw_frames, queue, streams>>
    /\ UNCHANGED iirVars

MicNext ==
    \/ MicRender
    \/ MicStream
    \/ \E s \in StreamIds : MicStreamNext(s)
    \/ MicSuspend
    \/ MicResume
    \/ MicClose
    \/ MicDrop

(***************************************************************************)
(* Biquad coefficients.  The f32 arithmetic is not computed: a coefficient *)
(* is the expression the code evaluates, applied to the arguments it       *)
(* passes, so two coefficients are equal when the code computes them by    *)
(* the same formula from the same values.                                  *)
(***************************************************************************)
FilterTypes == {"Lowpass", "Highpass", "Bandpass", "Notch", "Allpass", "Peaking",
                "Lowshelf", "Highshelf"}

Term(f, args) == [f |-> f, args |-> args]

\* frequency * 10f32.powf(detune / 1200.)
computed_freq(frequency, detune) ==
    Term("frequency*10^(detune/1200)", <<frequency, detune>>)

b0(t, sr, cf, q, gain) ==
    CASE t = "Lowpass" -> Term("(1-cos(w0))/2", <<sr, cf>>)
      [] t = "Highpass" -> Term("(1+cos(w0))/2", <<sr, cf>>)
      [] t = "Bandpass" -> Term("alpha_q", <<sr, cf, q>>)
      [] t = "Notch" -> Term("1.0", <<>>)
      [] t = "Allpass" -> Term("1-alpha_q", <<sr, cf, q>>)
      [] t = "Peaking" -> Term("1+alpha_q*A", <<sr, cf, q, gain>>)
      [] t = "Lowshelf" -> Term("b0_lowshelf", <<sr, cf, gain>>)
      [] t = "Highshelf" -> Term("b0_highshelf", <<sr, cf, gain>>)

b1(t, sr, cf, gain) ==
    CASE t = "Lowpass" -> Term("1-cos(w0)", <<sr, cf>>)
      [] t = "Highpass" -> Term("-(1+cos(w0))", <<sr, cf>>)
      [] t = "Bandpass" -> Term("0.0", <<>>)
      [] t = "Notch" -> Term("-2cos(w0)", <<sr, cf>>)
      [] t = "Allpass" -> Term("-2cos(w0)", <<sr, cf>>)
      [] t = "Peaking" -> Term("-2cos(w0)", <<sr, cf>>)
      [] t = "Lowshelf" -> Term("b1_lowshelf", <<sr, cf, gain>>)
      [] t = "Highshelf" -> Term("b1_highshelf", <<sr, cf, gain>>)

b2(t, sr, cf, q, gain) ==
    CASE t = "Lowpass" -> Term("(1-cos(w0))/2", <<sr, cf>>)
      [] t = "Highpass" -> Term("(1+cos(w0))/2", <<sr, cf>>)
      [] t = "Bandpass" -> Term("-alpha_q", <<sr, cf, q>>)
      [] t = "Notch" -> Term("1.0", <<>>)
      [] t = "Allpass" -> Term("1+alpha_q", <<sr, cf, q>>)
      [] t = "Peaking" -> Term("1-alpha_q*A", <<sr, cf, q, gain>>)
      [] t = "Lowshelf" -> Term("b2_lowshelf", <<sr, cf, gain>>)
      [] t = "Highshelf" -> Term("b2_highshelf", <<sr, cf, gain>>)

a0(t, sr, cf, q, gain) ==
    CASE t = "Lowpass" -> Term("1+alpha_q_db", <<sr, cf, q>>)
      [] t = "Highpass" -> Term("1+alpha_q_db", <<sr, cf, q>>)
      [] t = "Bandpass" -> Term("1+alpha_q", <<sr, cf, q>>)
      [] t = "Notch" -> Term("1+alpha_q", <<sr, cf, q>>)
      [] t = "Allpass" -> Term("1+alpha_q", <<sr, cf, q>>)
      [] t = "Peaking" -> Term("1+alpha_q/A", <<sr, cf, q, gain>>)
      [] t = "Lowshelf" -> Term("a0_lowshelf", <<sr, cf, gain>>)
      [] t = "Highshelf" -> Term("a0_highshelf", <<sr, cf, gain>>)

a1(t, sr, cf, gain) ==
    CASE t \in {"Lowpass", "Highpass", "Bandpass", "Notch", "Allpass", "Peaking"} ->
            Term("-2cos(w0)", <<sr, cf>>)
      [] t = "Lowshelf" -> Term("a1_lowshelf", <<sr, cf, gain>>)
      [] t = "Highshelf" -> Term("a1_highshelf", <<sr, cf, gain>>)

a2(t, sr, cf, q, gain) ==
    CASE t \in {"Lowpass", "Highpass", "Bandpass", "Notch", "Allpass"} ->
            Term("1-alpha_q_db", <<sr, cf, q>>)
      [] t = "Peaking" -> Term("1-alpha_q/A", <<sr, cf, q, gain>>)
      [] t = "Lowshelf" -> Term("a2_lowshelf", <<sr, cf, gain>>)
      [] t = "Highshelf" -> Term("a2_highshelf", <<sr, cf, gain>>)

\* IirFilterRenderer::init_coeffs(sample_rate, params)
init_coeffs(sr, params) ==
    LET cf == computed_freq(params.frequency, params.detune)
    IN  [b0 |-> b0(params.type_, sr, cf, params.q, params.gain),
         b1 |-> b1(params.type_, sr, cf, params.gain),
         b2 |-> b2(params.type_, sr, cf, params.q, params.gain),
         a0 |-> a0(params.type_, sr, cf, params.q, params.gain),
         a1 |-> a1(params.type_, sr, cf, params.gain),
         a2 |-> a2(params.type_, sr, cf, params.q, params.gain)]

\* IirFilterRenderer::update_coeffs(params): the value of self.coeffs afterwards
update_coeffs_reload(sr, params) ==
    LET cf == computed_freq(params.frequency, params.detune)
    IN  [b0 |-> b0(params.type_, sr, cf, params.q, params.gain),
         b1 |-> b1(params.type_, sr, cf, params.gain),
         b2 |-> b2(params.type_, sr, cf, params.q, params.gain),
         a0 |-> a0(type_, sr, cf, params.q, params.gain),
         a1 |-> a1(type_, sr, cf, params.gain),
         a2 |-> a2(type_, sr, cf, params.q, params.gain)]

update_coeffs(sr, params) ==
    LET cf == computed_freq(params.frequency, params.detune)
    IN  [b0 |-> b0(params.type_, sr, cf, params.q, params.gain),
         b1 |-> b1(params.type_, sr, cf, params.gain),
         b2 |-> b2(params.type_, sr, cf, params.q, params.gain),
         a0 |-> a0(params.type_, sr, cf, params.q, params.gain),
         a1 |-> a1(params.type_, sr, cf, params.gain),
         a2 |-> a2(params.type_, sr, cf, params.q, params.gain)]

\* let coeffs_resp = [b0, b1, b2, a0, a1, a2]
coeffs_resp(c) == <<c.b0, c.b1, c.b2, c.a0, c.a1, c.a2>>

\* filter up to its try_recv, on a renderer holding coefficients c: self.coeffs
\* afterwards, and the local coeffs_resp
filter_head_stale(sr, c, params) ==
    [coeffs |-> update_coeffs(sr, params), coeffs_resp |-> coeffs_resp(c)]

filter_head(sr, c, params) ==
    LET new == update_coeffs(sr, params)
    IN  [coeffs |-> new, coeffs_resp |-> coeffs_resp(new)]

\* IirFilterNode::new: the defaults and the values taken from default options
default_freq == 350

default_gain == 0

default_det == 0

default_q == 1

inits ==
    [q |-> default_det,          \* q_value = options.detune.unwrap_or(default_det)
     detune |-> default_det,
     frequency |-> default_freq,
     gain |-> default_gain,
     type_ |-> "Lowpass"]

\* the values params.get(..)[0] can yield in one quantum
ParamInputs ==
    {[q |-> default_q, detune |-> default_det, frequency |-> default_freq,
      gain |-> default_gain],
     [q |-> 2, detune |-> 100, frequency |-> 440, gain |-> 6]}

\* the types set_type is called with
TypeInputs == {"Lowpass", "Notch"}

Ctls == 1..MaxControl

(***************************************************************************)
(* The filter state.  An f32 is kept as zero or non-zero only.  With all    *)
(* samples zero a channel at rest stays at rest (every term of tick is a   *)
(* product with zero); otherwise the channel rings after the quantum, or   *)
(* has died out again (both state values exactly zero).                    *)
(***************************************************************************)
\* crate::MAX_CHANNELS
MAX_CHANNELS == 32

Zero == "0.0"
NonZero == "nonzero"

\* the input buffers of one quantum: per channel, all samples zero ("silent")
\* or some sample non-zero ("sound"); an AudioBuffer has at most MAX_CHANNELS
\* channels
InputQuanta ==
    {<<"silent">>, <<"sound">>, <<"sound", "silent">>,
     [k \in 1..MAX_CHANNELS |-> "silent"]}

\* .enumerate() over the channels of the input: the idx values passed to tick
\* (channel idx is position idx + 1 of the sequences of the model)
enumerate(input) == {k - 1 : k \in DOMAIN input}

\* IirFilterRenderer::tick over the samples of one channel: the values
\* (ss1[idx], ss2[idx]) can hold after the inner loop
ticks(i_data, s1, s2) ==
    IF i_data = "silent" /\ s1 = Zero /\ s2 = Zero
    THEN {<<Zero, Zero>>}
    ELSE {<<NonZero, NonZero>>, <<Zero, Zero>>}

\* the sample loop of filter: channel idx of the input runs tick on ss1[idx] and
\* ss2[idx]; the (ss1, ss2) the renderer can hold afterwards
RECURSIVE channel_outcomes(_, _, _, _)
channel_outcomes(input, s1, s2, n) ==
    IF n = 0 THEN {<<>>}
    ELSE {Append(f, t) : f \in channel_outcomes(input, s1, s2, n - 1),
                         t \in ticks(input[n], s1[n], s2[n])}

sample_loop_spill(input, s1, s2) ==
    LET after == channel_outcomes(input, s1, s2, Len(input))
        written == {idx + 1 : idx \in enumerate(input)}
    IN  {[ss1 |-> [k \in 1..MAX_CHANNELS |->
                      IF k \in written THEN f[k][1]
                      ELSE IF k - 1 \in written THEN f[k - 1][1] ELSE s1[k]],
          ss2 |-> [k \in 1..MAX_CHANNELS |->
                      IF k \in written THEN f[k][2]
                      ELSE IF k - 1 \in written THEN f[k - 1][2] ELSE s2[k]]] :
         f \in after}

sample_loop(input, s1, s2) ==
    LET after == channel_outcomes(input, s1, s2, Len(input))
        written == {idx + 1 : idx \in enumerate(input)}
    IN  {[ss1 |-> [k \in 1..MAX_CHANNELS |->
                      IF k \in written THEN f[k][1] ELSE s1[k]],
          ss2 |-> [k \in 1..MAX_CHANNELS |->
                      IF k \in written THEN f[k][2] ELSE s2[k]]] :
         f \in after}

\* AudioProcessor::tail_time of IirFilterRenderer
tail_time == FALSE

(***************************************************************************)
(* crossbeam_channel, bounded(0): a send blocks until a receive takes the  *)
(* message, and try_recv takes a message only from a sender that is        *)
(* blocked in send at that moment.                                         *)
(***************************************************************************)
Range(f) == {f[i] : i \in DOMAIN f}
Remove(seq, x) == SelectSeq(seq, LAMBDA y : y # x)

\* self.receiver.try_recv() in filter: waiters are the control threads blocked in
\* self.sender.send, oldest first; the messages taken and the waiters left
filter_recv_drain(waiters) == [msgs |-> waiters, rest |-> <<>>]

filter_recv_never(waiters) == [msgs |-> <<>>, rest |-> waiters]

filter_recv(waiters) ==
    IF waiters = <<>> THEN [msgs |-> <<>>, rest |-> waiters]
    ELSE [msgs |-> <<Head(waiters)>>, rest |-> Tail(waiters)]

\* receiver.try_recv() of control thread c on its reply channel: Ok while the
\* render thread is blocked in sender.send(coeffs_resp) on that channel, Empty
\* while the render thread still holds the reply sender, Disconnected otherwise
reply_try_recv(c) ==
    IF rnd_pc = "send" /\ Head(rnd_req) = c THEN "Ok"
    ELSE IF c \in Range(rnd_req) THEN "Empty"
    ELSE "Disconnected"

(***************************************************************************)
(* Actions of the coefficient query path                                   *)
(***************************************************************************)
IirInit ==
    /\ iir_sample_rate = 44100
    /\ type_ = inits.type_
    /\ coeffs = init_coeffs(iir_sample_rate, inits)
    /\ ss1 = [idx \in 1..MAX_CHANNELS |-> Zero]
    /\ ss2 = [idx \in 1..MAX_CHANNELS |-> Zero]
    /\ renderer_alive = TRUE
    /\ rnd_pc = "idle"
    /\ rnd_params = inits
    /\ rnd_req = <<>>
    /\ req_waiters = <<>>
    /\ ctl_pc = [c \in Ctls |-> "idle"]
    /\ ctl_req = [c \in Ctls |-> 0]
    /\ ctl_resp = [c \in Ctls |-> <<>>]
    /\ req_count = 0
    /\ answered = <<>>
    /\ call = [reqs |-> <<>>, resp |-> <<>>, sent |-> <<>>]

\* IirFilterNode::set_type(&mut self, type_): no other call on the node runs
IirSetType(t) ==
    /\ \A c \in Ctls : ctl_pc[c] \in {"idle", "panicked"}
    /\ type_' = t
    /\ UNCHANGED <<iir_sample_rate, coeffs, renderer_alive, rnd_pc, rnd_req,
                   req_waiters, ctl_pc, ctl_req, ctl_resp, req_count, answered, call>>
    /\ UNCHANGED <<ss1, ss2, rnd_params>>
    /\ UNCHANGED micVars

\* get_frequency_response up to self.sender.send(CoeffsReq(sender)).unwrap():
\* the send fails at once when the renderer is gone, and blocks otherwise
CtlRequest(c) ==
    /\ ctl_pc[c] = "idle"
    /\ req_count < MaxRequests
    /\ req_count' = req_count + 1
    /\ answered' = Append(answered, 0)
    /\ ctl_req' = [ctl_req EXCEPT ![c] = req_count + 1]
    /\ ctl_resp' = [ctl_resp EXCEPT ![c] = <<>>]
    /\ IF renderer_alive
       THEN /\ ctl_pc' = [ctl_pc EXCEPT ![c] = "send"]
            /\ req_waiters' = Append(req_waiters, c)
       ELSE /\ ctl_pc' = [ctl_pc EXCEPT ![c] = "panicked"]
            /\ UNCHANGED req_waiters
    /\ UNCHANGED <<iir_sample_rate, type_, coeffs, renderer_alive, rnd_pc, rnd_req,
                   call>>
    /\ UNCHANGED <<ss1, ss2, rnd_params>>
    /\ UNCHANGED micVars

\* the blocked send returns Err once the request receiver is dropped: unwrap panics
CtlSendTimeout(c) ==
    /\ ctl_pc[c] = "send"
    /\ ctl_pc' = [ctl_pc EXCEPT ![c] = "panicked"]
    /\ req_waiters' = Remove(req_waiters, c)
    /\ UNCHANGED <<iir_sample_rate, type_, coeffs, renderer_alive, rnd_pc, rnd_req,
                   ctl_req, ctl_resp, req_count, answered, call>>
    /\ UNCHANGED <<ss1, ss2, rnd_params>>
    /\ UNCHANGED micVars

CtlSendDisconnected(c) ==
    /\ ctl_pc[c] = "send"
    /\ ~renderer_alive
    /\ ctl_pc' = [ctl_pc EXCEPT ![c] = "panicked"]
    /\ req_waiters' = Remove(req_waiters, c)
    /\ UNCHANGED <<iir_sample_rate, type_, coeffs, renderer_alive, rnd_pc, rnd_req,
                   ctl_req, ctl_resp, req_count, answered, call>>
    /\ UNCHANGED <<ss1, ss2, rnd_params>>
    /\ UNCHANGED micVars

\* one pass of the loop of get_frequency_response
CtlPoll(c) ==
    /\ ctl_pc[c] = "poll"
    /\ LET r == reply_try_recv(c)
           msg == call.resp
       IN  CASE r = "Ok" ->
                  /\ ctl_resp' = [ctl_resp EXCEPT ![c] = msg]
                  /\ ctl_pc' = [ctl_pc EXCEPT ![c] = "idle"]
                  /\ answered' = [answered EXCEPT ![ctl_req[c]] = @ + 1]
                  /\ call' = [call EXCEPT !.sent =
                                 Append(@, [req |-> ctl_req[c], msg |-> msg])]
                  /\ rnd_req' = Tail(rnd_req)
                  /\ rnd_pc' = IF Tail(rnd_req) = <<>> THEN "filter" ELSE "took"
             [] r = "Empty" ->
                  UNCHANGED <<ctl_resp, ctl_pc, answered, call, rnd_req, rnd_pc>>
             [] r = "Disconnected" ->
                  /\ ctl_pc' = [ctl_pc EXCEPT ![c] = "panicked"]
                  /\ UNCHANGED <<ctl_resp, answered, call, rnd_req, rnd_pc>>
    /\ UNCHANGED <<iir_sample_rate, type_, coeffs, renderer_alive, req_waiters,
                   ctl_req, req_count>>
    /\ UNCHANGED <<ss1, ss2, rnd_params>>
    /\ UNCHANGED micVars

\* IirFilterRenderer::process up to the call of filter: the parameter values of
\* the quantum and one load of the atomic type make up the Params
IirProcess(p) ==
    /\ renderer_alive
    /\ rnd_pc = "idle"
    /\ rnd_params' = [q |-> p.q, detune |-> p.detune, frequency |-> p.frequency,
                      gain |-> p.gain, type_ |-> type_]
    /\ rnd_pc' = "params"
    /\ UNCHANGED <<iir_sample_rate, type_, coeffs, ss1, ss2, renderer_alive, rnd_req,
                   req_waiters, ctl_pc, ctl_req, ctl_resp, req_count, answered, call>>
    /\ UNCHANGED micVars

\* IirFilterRenderer::filter up to its try_recv; with no request taken the call
\* runs on through the sample loop and returns
IirFilter ==
    /\ rnd_pc = "params"
    /\ LET head == filter_head(iir_sample_rate, coeffs, rnd_params)
           r == filter_recv(req_waiters)
       IN  /\ coeffs' = head.coeffs
           /\ req_waiters' = r.rest
           /\ rnd_req' = r.msgs
           /\ ctl_pc' = [c \in Ctls |->
                            IF c \in Range(r.msgs) THEN "poll" ELSE ctl_pc[c]]
           /\ call' = [reqs |-> [i \in DOMAIN r.msgs |-> ctl_req[r.msgs[i]]],
                       resp |-> head.coeffs_resp,
                       sent |-> <<>>]
           /\ rnd_pc' = IF r.msgs = <<>> THEN "idle" ELSE "took"
           /\ IF r.msgs = <<>>
              THEN \E input \in InputQuanta :
                      \E st \in sample_loop(input, ss1, ss2) :
                          ss1' = st.ss1 /\ ss2' = st.ss2
              ELSE UNCHANGED <<ss1, ss2>>
    /\ UNCHANGED <<iir_sample_rate, type_, renderer_alive, rnd_params, ctl_req,
                   ctl_resp, req_count, answered>>
    /\ UNCHANGED micVars

\* filter reaches sender.send(coeffs_resp) and blocks until the requester receives
IirFilterSend ==
    /\ rnd_pc = "took"
    /\ rnd_pc' = "send"
    /\ UNCHANGED <<iir_sample_rate, type_, coeffs, renderer_alive, rnd_req,
                   req_waiters, ctl_pc, ctl_req, ctl_resp, req_count, answered, call>>
    /\ UNCHANGED <<ss1, ss2, rnd_params>>
    /\ UNCHANGED micVars

\* the sample loop of filter, after the reply was handed over
IirFilterLoop ==
    /\ rnd_pc = "filter"
    /\ rnd_pc' = "idle"
    /\ \E input \in InputQuanta :
          \E st \in sample_loop(input, ss1, ss2) :
              ss1' = st.ss1 /\ ss2' = st.ss2
    /\ UNCHANGED <<iir_sample_rate, type_, coeffs, renderer_alive, rnd_params,
                   rnd_req, req_waiters, ctl_pc, ctl_req, ctl_resp, req_count,
                   answered, call>>
    /\ UNCHANGED micVars

\* the render loop retires the node between two quanta: the renderer and its
\* Receiver<CoeffsReq> are dropped
IirRendererDrop ==
    /\ renderer_alive
    /\ rnd_pc = "idle"
    /\ renderer_alive' = FALSE
    /\ UNCHANGED <<iir_sample_rate, type_, coeffs, rnd_pc, rnd_req, req_waiters,
                   ctl_pc, ctl_req, ctl_resp, req_count, answered, call>>
    /\ UNCHANGED <<ss1, ss2, rnd_params>>
    /\ UNCHANGED micVars

IirNext ==
    \/ \E t \in TypeInputs : IirSetType(t)
    \/ \E c \in Ctls : CtlRequest(c)
    \/ \E c \in Ctls : CtlPoll(c)
    \/ \E p \in ParamInputs : IirProcess(p)
    \/ IirFilter
    \/ IirFilterSend
    \/ IirFilterLoop
    \/ IirRendererDrop
    \/ \E c \in Ctls : CtlSendDisconnected(c)

\* the same with a renderer that outlives every query
IirLiveNext ==
    \/ \E t \in TypeInputs : IirSetType(t)
    \/ \E c \in Ctls : CtlRequest(c)
    \/ \E c \in Ctls : CtlPoll(c)
    \/ \E p \in ParamInputs : IirProcess(p)
    \/ IirFilter
    \/ IirFilterSend
    \/ IirFilterLoop

(***************************************************************************)
(* Specifications.  The capture path and the query path share no state,    *)
(* so each is explored on its own, from the initial state of the other.    *)
(***************************************************************************)
Init == MicInit /\ IirInit
Next == MicNext \/ IirNext
Spec == Init /\ [][Next]_vars

\* the query path is explored beside one idle device
MicSpec == Init /\ [][MicNext]_vars
IirSpecInit == Init /\ number_of_channels = 1
IirSpec == IirSpecInit /\ [][IirNext]_vars

\* the render thread runs process every quantum and is never descheduled for
\* good, and a control thread inside get_frequency_response keeps polling
IirFairness ==
    /\ WF_vars(\E p \in ParamInputs : IirProcess(p))
    /\ WF_vars(IirFilter)
    /\ WF_vars(IirFilterSend)
    /\ WF_vars(IirFilterLoop)
    /\ \A c \in Ctls : WF_vars(CtlPoll(c))
IirLiveSpec == IirSpecInit /\ [][IirLiveNext]_vars /\ IirFairness

(***************************************************************************)
(* Properties of the capture path (MicSpec)                                *)
(***************************************************************************)
\* the buffer built by the i-th callback, and the items one stream received
\* from the channel (as opposed to the silence next substitutes)
Produced(i) == Renders[i].buffer
Captured(s) == SelectSeq(NextsOf(s), LAMBDA e : e.recv = "Ok")
\* a silent quantum of the microphone's shape
SilentQuantum ==
    [channels |-> [c \in 1..number_of_channels |->
                       [k \in 1..RENDER_QUANTUM_SIZE |-> 0]],
     sample_rate |-> sample_rate]

\* C2: MicrophoneRender::render never blocks and never retries: every call made
\* one send attempt and returned, and a full channel does not hold the
\* callback back: whenever the hardware can fire it, the call can run.
C2_RenderOneAttemptNeverBlocks ==
    /\ \A i \in DOMAIN log :
          log[i].op = "render" => Len(log[i].sends) = 1 /\ log[i].outcome = "returned"
    /\ (/\ backend_state = "running" /\ sender_alive /\ NumProduced < MaxProduced
        /\ Len(queue) = QueueCapacity)
          => ENABLED MicRender
C2_Witness ==
    \E i \in DOMAIN log :
        /\ log[i].op = "render"
        /\ log[i].sends = <<"Full">>
        /\ \E j \in 1..(i - 1) : log[j].op = "next"

\* C3: with capacity C, when the callback produces C+1 buffers before any next,
\* exactly the last of them is dropped, the queue then holds the first C in
\* arrival order, and the following C calls of next return them in that order.
C3_OverflowDropsOneKeepsOrder ==
    LET C == QueueCapacity
    IN  (Len(log) >= C + 1 /\ \A i \in 1..(C + 1) : log[i].op = "render")
        => /\ \A i \in 1..C : log[i].sends = <<"Ok">>
           /\ log[C + 1].sends = <<"Full">>
           /\ Len(log) = C + 1 => queue = [i \in 1..C |-> Produced(i)]
           /\ \A j \in 1..C :
                 j <= NumNext => Nexts[j].item = SomeOk(Produced(j))
C3_Witness ==
    LET C == QueueCapacity
    IN  /\ Len(log) = 2 * C + 1
        /\ \A i \in 1..(C + 1) : log[i].op = "render"
        /\ \A i \in (C + 2)..(2 * C + 1) : log[i].op = "next"

\* C4: a next call that finds the queue empty while the producer is connected
\* returns Some(Ok(b)) with b a silent buffer of number_of_channels channels of
\* RENDER_QUANTUM_SIZE frames at the microphone's sample rate, in that one step.
C4_EmptyConnectedYieldsSilence ==
    [][\A s \in StreamIds :
          (MicStreamNext(s) /\ queue = <<>> /\ sender_alive)
          => /\ Len(log') = Len(log) + 1
             /\ Last(log').item = SomeOk(SilentQuantum)]_vars
C4_Witness ==
    /\ backend_state = "suspended"
    /\ log # <<>>
    /\ Last(log).op = "next"
    /\ Last(log).recv = "Empty"
    /\ queue = <<>>

\* C5: when try_recv reports Disconnected next returns None, and once a stream
\* has returned None every later next on it returns None.
C5_DisconnectIsTerminal ==
    \A i \in DOMAIN log :
        log[i].op = "next"
        => /\ log[i].recv = "Disconnected" => log[i].item = None
           /\ \A j \in (i + 1)..Len(log) :
                 (log[i].item = None /\ log[j].op = "next"
                    /\ log[j].stream = log[i].stream)
                 => log[j].item = None
C5_Witness ==
    \E i, j \in DOMAIN log :
        /\ i < j
        /\ log[i].op = "next" /\ log[j].op = "next"
        /\ log[i].stream = log[j].stream
        /\ log[i].item = None /\ log[j].item = None

\* C6: the buffers one stream received from the channel are, in the order it
\* received them, buffers the callback produced, unmodified, in production
\* order and none of them twice.
ProducedIndex(item) == CHOOSE i \in 1..NumProduced : item = SomeOk(Produced(i))
C6_CapturedIsFifoSubsequence ==
    \A s \in StreamIds :
        LET cap == Captured(s)
        IN  /\ \A k \in DOMAIN cap :
                  \E i \in 1..NumProduced : cap[k].item = SomeOk(Produced(i))
            /\ \A k1, k2 \in DOMAIN cap :
                  k1 < k2 => ProducedIndex(cap[k1].item) < ProducedIndex(cap[k2].item)
C6_Witness ==
    \E s \in StreamIds :
        /\ Len(Captured(s)) >= 2
        /\ \E i \in DOMAIN log : log[i].op = "render" /\ log[i].sends = <<"Full">>

\* C7: next returns only Some(Ok(buffer)) or None, and a callback that drops
\* its frame returns normally.
C7_NoErrorSurfaced ==
    \A i \in DOMAIN log :
        /\ log[i].op = "next"
              => \/ log[i].item = None
                 \/ log[i].item.tag = "Some" /\ log[i].item.res = "Ok"
        /\ log[i].op = "render" => log[i].outcome = "returned"
C7_Witness ==
    /\ \E i \in DOMAIN log : log[i].op = "render" /\ log[i].sends = <<"Full">>
    /\ \E i \in DOMAIN log : log[i].op = "next" /\ log[i].recv = "Empty"

(***************************************************************************)
(* Properties of the coefficient query path (IirSpec, IirLiveSpec)         *)
(***************************************************************************)
\* C1: the render thread never waits for the control thread: no process/filter
\* call is ever parked in sender.send(coeffs_resp) until the requester polls.
C1_RenderNeverWaits == rnd_pc # "send"

\* C8: a dropped endpoint of the query path makes no thread panic.
C8_DroppedEndpointNoPanic == \A c \in Ctls : ctl_pc[c] # "panicked"

\* C9: a filter call takes at most one pending request; once the call is past
\* its reply it has sent one reply of six coefficients to each request it took
\* and nothing else; and no request has been sent two replies.
C9_OneReplyPerCall ==
    /\ Len(call.reqs) <= 1
    /\ Len(call.sent) <= Len(call.reqs)
    /\ \A i \in DOMAIN call.sent :
          call.sent[i].req = call.reqs[i] /\ Len(call.sent[i].msg) = 6
    /\ rnd_pc \in {"idle", "filter"} => Len(call.sent) = Len(call.reqs)
    /\ \A r \in DOMAIN answered : answered[r] <= 1
C9_Witness ==
    /\ rnd_pc = "filter"
    /\ Len(call.sent) = 1
    /\ req_waiters # <<>>
    /\ answered[call.reqs[1]] = 1
    /\ \E r \in DOMAIN answered : answered[r] = 0

\* C10: with a renderer that stays alive and a render thread that keeps calling
\* process, every get_frequency_response call that was started returns.
C10_QueryReturns ==
    \A c \in Ctls : (ctl_pc[c] \in {"send", "poll"}) ~> (ctl_pc[c] = "idle")
C10_Witness ==
    \E c \in Ctls :
        /\ ctl_pc[c] = "idle"
        /\ ctl_req[c] = MaxRequests
        /\ ctl_resp[c] = call.resp
        /\ answered = [r \in 1..MaxRequests |-> 1]

\* C11: there is no timeout: a get_frequency_response call whose request no
\* process call has taken stays blocked in its send, neither returning nor
\* failing, across every step that is not the filter of a process call and
\* leaves the renderer alive.
C11_NoQueryTimeout ==
    [][\A c \in Ctls :
          (/\ ctl_pc[c] = "send"
           /\ renderer_alive /\ renderer_alive'
           /\ ~IirFilter)
          => /\ ctl_pc'[c] = "send"
             /\ ctl_resp'[c] = ctl_resp[c]
             /\ c \in Range(req_waiters')]_vars
C11_Witness ==
    /\ renderer_alive
    /\ \A c \in Ctls : ctl_pc[c] = "send"
    /\ call.resp = <<>>
    /\ type_ # inits.type_

(***************************************************************************)
(* Lifecycle of the Microphone handle (MicSpec)                            *)
(***************************************************************************)
\* the position in the history of the step that ended the handle (0: none)
EndedAt(op) ==
    IF \E i \in DOMAIN log : log[i].op = op
    THEN CHOOSE i \in DOMAIN log : log[i].op = op
    ELSE 0

\* C12: when the Microphone is dropped without close while streams exist, the
\* backend and the producer stay alive from then on, the callback can fire
\* right after the drop as before it, a queued buffer is still delivered, and
\* no next call after the drop returns None.
C12_DropKeepsStreamsAlive ==
    (EndedAt("drop") # 0 /\ streams # {})
    => /\ sender_alive
       /\ backend_state # "closed"
       /\ (/\ backend_state = "running" /\ NumProduced < MaxProduced
           /\ Last(log).op = "drop")
             => ENABLED MicRender
       /\ \A s \in streams :
             queue # <<>> => next(queue, sender_alive).item = SomeOk(Head(queue))
       /\ \A j \in (EndedAt("drop") + 1)..Len(log) :
             log[j].op = "next" => log[j].item # None
C12_Witness ==
    \E d, i, j \in DOMAIN log :
        /\ d < i /\ i < j
        /\ log[d].op = "drop"
        /\ log[i].op = "render" /\ log[i].sends = <<"Ok">>
        /\ log[j].op = "next" /\ log[j].item = SomeOk(log[i].buffer)

\* C13: with several streams polled in any interleaving, a produced buffer is
\* received from the channel by at most one next call of at most one stream,
\* and every next call that did not find the channel disconnected returned
\* Some(Ok(_)).
C13_BufferOfferedOnce ==
    /\ \A k \in 1..NumProduced :
          Cardinality({i \in DOMAIN log :
                          /\ log[i].op = "next"
                          /\ log[i].recv = "Ok"
                          /\ log[i].item = SomeOk(Produced(k))}) <= 1
    /\ \A i \in DOMAIN log :
          (log[i].op = "next" /\ log[i].recv # "Disconnected")
          => log[i].item.tag = "Some" /\ log[i].item.res = "Ok"
C13_Witness ==
    \E s1, s2 \in streams :
        /\ s1 # s2
        /\ Len(Captured(s1)) >= 1
        /\ Len(Captured(s2)) >= 1
        /\ \E i \in DOMAIN log :
              log[i].op = "next" /\ log[i].stream = s2 /\ log[i].recv = "Empty"

\* C14: close happens at most once and is terminal: once the Microphone was
\* closed, no suspend, resume or close applies to it any more, the callback
\* can no longer run and has enqueued nothing since, and a stream that has
\* drained the channel is told the input has ended.
C14_CloseIsTerminal ==
    /\ Cardinality({i \in DOMAIN log : log[i].op = "close"}) <= 1
    /\ EndedAt("close") # 0
       => /\ ~mic_alive
          /\ backend_state = "closed"
          /\ ~ENABLED MicSuspend
          /\ ~ENABLED MicResume
          /\ ~ENABLED MicClose
          /\ ~ENABLED MicRender
          /\ \A j \in (EndedAt("close") + 1)..Len(log) : log[j].op # "render"
          /\ queue = <<>> => next(queue, sender_alive).item = None
C14_Witness ==
    \E r, c, i, j \in DOMAIN log :
        /\ r < c /\ c < i /\ i < j
        /\ log[r].op = "render"
        /\ log[c].op = "close"
        /\ log[i].op = "next" /\ log[i].item = SomeOk(log[r].buffer)
        /\ log[j].op = "next" /\ log[j].item = None
        /\ log[i].stream # log[j].stream

\* C15: every buffer a next call returned, captured or silent, has
\* number_of_channels channels, each of RENDER_QUANTUM_SIZE frames, whatever
\* the size of the slices the hardware hands to the callback.
C15_EveryBufferIsOneQuantum ==
    \A i \in DOMAIN log :
        (log[i].op = "next" /\ log[i].item.tag = "Some")
        => LET channels == log[i].item.buffer.channels
           IN  /\ Len(channels) = number_of_channels
               /\ \A c \in DOMAIN channels : Len(channels[c]) = RENDER_QUANTUM_SIZE

\* C17: a callback that finds the channel full leaves its contents and order
\* as they were and discards the buffer it has just built; no callback ever
\* removes or replaces a queued buffer; and the channel never holds more than
\* QueueCapacity buffers.
C17_OverrunDropsNewest ==
    [][MicRender
       => /\ SubSeq(queue', 1, Len(queue)) = queue
          /\ Len(queue') <= QueueCapacity
          /\ Len(queue) = QueueCapacity
                => /\ queue' = queue
                   /\ Last(log').sends = <<"Full">>
                   /\ \A k \in DOMAIN queue' : queue'[k] # Last(log').buffer]_vars
C17_Witness ==
    /\ Len(queue) = QueueCapacity
    /\ log # <<>>
    /\ Last(log).op = "render"
    /\ Last(log).sends = <<"Full">>
    /\ queue = [k \in 1..QueueCapacity |->
                    Produced(NumProduced - QueueCapacity - 1 + k)]
    /\ \E i \in DOMAIN log : log[i].op = "next"

\* the next calls made after position c of the history, over all streams
NextsAfter(c) ==
    SelectSeq(SubSeq(log, c + 1, Len(log)), LAMBDA e : e.op = "next")

\* C19: when close drops the producer while k buffers are queued, the next k
\* calls of next return exactly those buffers in queue order, and every call
\* after them returns None: nothing queued is lost and no silence is
\* substituted after the disconnection.
C19_QueuedSurviveDisconnect ==
    EndedAt("close") # 0
    => LET c == EndedAt("close")
           queued == log[c].queued
           after == NextsAfter(c)
       IN  \A j \in DOMAIN after :
               IF j <= Len(queued)
               THEN after[j].recv = "Ok" /\ after[j].item = SomeOk(queued[j])
               ELSE after[j].recv = "Disconnected" /\ after[j].item = None
C19_Witness ==
    /\ EndedAt("close") # 0
    /\ Len(log[EndedAt("close")].queued) = 2
    /\ Len(NextsAfter(EndedAt("close"))) = 3
    /\ Last(log).item = None

(***************************************************************************)
(* Properties of the filter state (IirSpec)                                *)
(***************************************************************************)
\* C16: between two quanta, while any per-channel filter state is non-zero the
\* renderer reports tail-time true.
C16_TailTimeWhileDecaying ==
    (/\ renderer_alive
     /\ rnd_pc = "idle"
     /\ \E idx \in 1..MAX_CHANNELS : ss1[idx] # Zero \/ ss2[idx] # Zero)
    => tail_time

(***************************************************************************)
(* Properties of the coefficients (IirSpec)                                *)
(***************************************************************************)
\* the six coefficients of filter type t for the parameter values of params
SixOf(t, params) ==
    LET cf == computed_freq(params.frequency, params.detune)
        sr == iir_sample_rate
    IN  [b0 |-> b0(t, sr, cf, params.q, params.gain),
         b1 |-> b1(t, sr, cf, params.gain),
         b2 |-> b2(t, sr, cf, params.q, params.gain),
         a0 |-> a0(t, sr, cf, params.q, params.gain),
         a1 |-> a1(t, sr, cf, params.gain),
         a2 |-> a2(t, sr, cf, params.q, params.gain)]

\* C18: a process call loads the atomic type once, getting the value of the
\* latest completed set_type, and its filter computes all six coefficients,
\* the ones it uses and the ones it reports, from that one value, whatever
\* set_type has stored since the load.
C18_TypeSnapshotPerQuantum ==
    [][/\ (\E p \in ParamInputs : IirProcess(p)) => rnd_params'.type_ = type_
       /\ IirFilter
          => /\ rnd_params' = rnd_params
             /\ coeffs' = SixOf(rnd_params.type_, rnd_params)
             /\ call'.resp = coeffs_resp(SixOf(rnd_params.type_, rnd_params))]_vars
C18_Witness ==
    /\ rnd_pc = "took"
    /\ type_ # rnd_params.type_
    /\ coeffs = SixOf(rnd_params.type_, rnd_params)
    /\ coeffs # SixOf(type_, rnd_params)

\* C20: the reply to a request is never stale: the coeffs_resp a filter call
\* holds and every reply it has sent are the six coefficients that call
\* computed from its own Params, which are the coefficients the renderer
\* holds while it filters the samples of that quantum.
C20_ReplyIsOfThisQuantum ==
    rnd_pc # "params" /\ call.resp # <<>>
    => /\ call.resp = coeffs_resp(SixOf(rnd_params.type_, rnd_params))
       /\ call.resp = coeffs_resp(coeffs)
       /\ \A i \in DOMAIN call.sent :
             /\ call.sent[i].msg = call.resp
             /\ \A c \in Ctls :
                   (ctl_req[c] = call.sent[i].req /\ ctl_pc[c] = "idle")
                   => ctl_resp[c] = call.resp
C20_Witness ==
    /\ rnd_pc = "filter"
    /\ Len(call.sent) = 1
    /\ call.resp # coeffs_resp(init_coeffs(iir_sample_rate, inits))
    /\ \E c1, c2 \in Ctls :
          /\ ctl_req[c1] = call.sent[1].req
          /\ ctl_resp[c1] = call.resp
          /\ ctl_pc[c2] = "idle"
          /\ ctl_resp[c2] # <<>>
          /\ ctl_resp[c2] # call.resp

\* C21: every channel index a sample loop passes to tick is smaller than
\* MAX_CHANNELS, and the loop is channel-wise: for every input the call may
\* get, what ss1[idx], ss2[idx] hold afterwards comes from tick on that
\* channel's samples and that channel's own state, and the state of a channel
\* the input does not have is left as it was; no other step touches the filter
\* state.
C21_ChannelStateInBoundsIsolated ==
    [][/\ rnd_pc \in {"params", "filter"}
          => \A input \in InputQuanta :
                /\ \A idx \in enumerate(input) : idx < MAX_CHANNELS
                /\ \A st \in sample_loop(input, ss1, ss2) :
                      \A idx \in 0..(MAX_CHANNELS - 1) :
                          IF idx \in enumerate(input)
                          THEN <<st.ss1[idx + 1], st.ss2[idx + 1]>>
                                  \in ticks(input[idx + 1], ss1[idx + 1], ss2[idx + 1])
                          ELSE /\ st.ss1[idx + 1] = ss1[idx + 1]
                               /\ st.ss2[idx + 1] = ss2[idx + 1]
       /\ DOMAIN ss1' = 1..MAX_CHANNELS /\ DOMAIN ss2' = 1..MAX_CHANNELS
       /\ <<ss1', ss2'>> # <<ss1, ss2>>
          => /\ IirFilterLoop \/ (IirFilter /\ rnd_pc' = "idle")
             /\ \E input \in InputQuanta :
                   \A idx \in 0..(MAX_CHANNELS - 1) :
                       IF idx \in enumerate(input)
                       THEN <<ss1'[idx + 1], ss2'[idx + 1]>>
                               \in ticks(input[idx + 1], ss1[idx + 1], ss2[idx + 1])
                       ELSE /\ ss1'[idx + 1] = ss1[idx + 1]
                            /\ ss2'[idx + 1] = ss2[idx + 1]]_vars
C21_Witness ==
    /\ rnd_pc = "idle"
    /\ call.resp # <<>>
    /\ call.reqs # <<>>
    /\ ss1[1] = NonZero /\ ss2[1] = NonZero
    /\ \A idx \in 1..(MAX_CHANNELS - 1) : ss1[idx + 1] = Zero /\ ss2[idx + 1] = Zero

====
